---- MODULE Spec2Model ----
(***************************************************************************)
(* nextjs-auth-starter: route middleware, sign-up / sign-in server actions, *)
(* the credentials authorize function, the Auth.js callbacks and the user  *)
(* lookups, over a store of user records.                                  *)
(*                                                                         *)
(* Strings the code inspects character by character (path names,          *)
(* passwords) are sequences of one-character strings.  Strings the code    *)
(* only compares for equality (emails, messages) are TLA+ strings.         *)
(* A value that may be null/undefined is a set with at most one element.   *)
(***************************************************************************)
EXTENDS Integers, Sequences, FiniteSets, TLC

VARIABLES
  users,    \* the User records of the store
  cookie,   \* the session token the browser holds, if any
  last,     \* what the operation that ran last was given and gave
  calls,    \* the signUp invocations in flight, one slot per caller
  runtime,  \* the Node.js process: NODE_ENV, globalThis.prismaGlobal, clients
  signedUp, \* history: what each signUp that succeeded was given and created
  forms     \* the state of the SignInForm and of the SignUpForm in the browser

vars == <<users, cookie, last, calls, runtime, signedUp, forms>>

-----------------------------------------------------------------------------
(* Bounds of the model *)

\* cap on the number of user records the store may hold
MaxUsers == 3

\* number of callers that may have a signUp invocation in flight at once
MaxCalls == 2

\* cap on the number of evaluations of the prismaSingleton module
MaxEvals == 4

\* cap on the number of server actions one form may have in flight
MaxInFlight == 2

\* cap on the number of requests of one chain of redirects
MaxHops == 4

-----------------------------------------------------------------------------
(* Characters and strings *)

Rep(c, n) == [i \in 1..n |-> c]

Lower == {"a","b","c","d","e","f","g","h","i","j","k","l","m",
          "n","o","p","q","r","s","t","u","v","w","x","y","z"}

Upper == {"A","B","C","D","E","F","G","H","I","J","K","L","M",
          "N","O","P","Q","R","S","T","U","V","W","X","Y","Z"}

Digit == {"0","1","2","3","4","5","6","7","8","9"}

HasIn(s, C) == \E i \in 1..Len(s) : s[i] \in C

\* String.prototype.startsWith
StartsWith(s, p) == Len(p) <= Len(s) /\ SubSeq(s, 1, Len(p)) = p

-----------------------------------------------------------------------------
(* src/schemas/index.ts *)

PasswordMin == 14

PasswordMax == 32

\* the {14,} quantifier at the end of the pattern
RegexRepeatMin == 14

\* The first bracket expression of the pattern, [!@#$%^&*()_+={[}] : the first
\* "]" closes it.
Special == {"!","@","#","$","%","^","&","*","(",")","_","+","=","{","[","}"}

\* [A-Za-z\d!@#$%^&*()_+={[}]
Allowed == Lower \cup Upper \cup Digit \cup Special

\* What follows the closed bracket expression is read literally:
\* |:;\"'<,>.]  is an alternation whose right side is  :;"'<,>  then any
\* character then "]".
Literal == <<":", ";", "\"", "'", "<", ",", ">">>

\* (?=.*[!@#$%^&*()_+={[}]|:;\"'<,>.]) evaluated at the start of the input
LookaheadSpecial(s) ==
  \/ HasIn(s, Special)
  \/ /\ Len(s) >= Len(Literal) + 2
     /\ SubSeq(s, 1, Len(Literal)) = Literal
     /\ s[Len(Literal) + 2] = "]"

\* left side of the top-level alternation:
\* ^(?=.*[a-z])(?=.*[A-Z])(?=.*\d)(?=...)[A-Za-z\d!@#$%^&*()_+={[}]
RegexLeft(s) ==
  /\ HasIn(s, Lower)
  /\ HasIn(s, Upper)
  /\ HasIn(s, Digit)
  /\ LookaheadSpecial(s)
  /\ Len(s) >= 1
  /\ s[1] \in Allowed

\* right side of the top-level alternation:  :;\"'<,>.]{14,}$
RegexRight(s) ==
  \E i \in 1..Len(s) :
    /\ i + Len(Literal) <= Len(s)
    /\ SubSeq(s, i, i + Len(Literal) - 1) = Literal
    /\ Len(s) - (i + Len(Literal)) >= RegexRepeatMin
    /\ \A j \in (i + Len(Literal) + 1)..Len(s) : s[j] = "]"

\* RegExp.prototype.test of the password pattern
PasswordRegex(s) == RegexLeft(s) \/ RegexRight(s)

\* The same rule with a minimum length of 13.
PasswordRuleMin13(s) ==
  /\ Len(s) >= PasswordMin - 1
  /\ Len(s) <= PasswordMax
  /\ PasswordRegex(s)
  /\ Len(s) > 0

\* The same rule without the maximum length.
PasswordRuleNoMax(s) ==
  /\ Len(s) >= PasswordMin
  /\ PasswordRegex(s)
  /\ Len(s) > 0

\* z.string().min(14).max(32).regex(...).refine(length > 0)
PasswordRule(s) ==
  /\ Len(s) >= PasswordMin
  /\ Len(s) <= PasswordMax
  /\ PasswordRegex(s)
  /\ Len(s) > 0

\* z.string().email(): the addresses of the model that are well formed
IsEmail(e) == e \in {"ann@x.io", "bob@x.io"}

\* SignInSchema.safeParse(values).success
SignInSchema(values) == IsEmail(values.email) /\ PasswordRule(values.password)

\* SignUpSchema.safeParse(values).success
SignUpSchema(values) ==
  /\ IsEmail(values.email)
  /\ PasswordRule(values.password)
  /\ values.name # ""

-----------------------------------------------------------------------------
(* Inputs *)

Emails == {"ann@x.io", "bob@x.io", "not-an-email"}

Names == {"", "Ann"}

\* 14 characters, all four character kinds
PwGood == <<"A", "a", "1", "!">> \o Rep("x", 10)

\* 14 characters, all four character kinds, different from PwGood
PwOther == <<"B", "b", "2", "@">> \o Rep("y", 10)

\* 13 characters
PwShort == <<"A", "a", "1", "!">> \o Rep("x", 9)

Passwords == {PwGood, PwOther, PwShort}

\* the salts bcrypt.genSalt may give
Salts == {1, 2}

\* outcome of one ORM call: it completes, or throws a
\* PrismaClientKnownRequestError, or throws something else
OrmOutcomes == {"ok", "known", "other"}

-----------------------------------------------------------------------------
(* bcrypt *)

NoPassword == [kind |-> "none", salt |-> 0, pw |-> <<>>]

\* bcrypt uses the first 72 bytes of the UTF-8 encoding of the password
BcryptKeyBytes == 72

\* the one character of the model that is not ASCII; its UTF-8 encoding
Euro == "€"

EuroBytes == <<"E2", "82", "AC">>

RECURSIVE Encode(_)
Encode(s) ==
  IF s = <<>> THEN <<>>
  ELSE (IF s[1] = Euro THEN EuroBytes ELSE <<s[1]>>) \o Encode(Tail(s))

\* Buffer.from(password, "utf8"): a password of ASCII characters is its own
\* encoding
Utf8(s) == IF \A i \in 1..Len(s) : s[i] # Euro THEN s ELSE Encode(s)

\* the bytes of the password that enter the hash
Key(password) ==
  LET bytes == Utf8(password) IN
  IF Len(bytes) <= BcryptKeyBytes THEN bytes
  ELSE SubSeq(bytes, 1, BcryptKeyBytes)

\* bcrypt.hash(password, salt)
Hash(password, salt) ==
  [kind |-> "bcrypt", salt |-> salt, pw |-> Key(password)]

\* bcrypt.compare(password, hash)
Compare(password, hash) ==
  hash.kind = "bcrypt" /\ hash = Hash(password, hash.salt)

-----------------------------------------------------------------------------
(* src/routes.ts *)

publicRoutes == { <<"/">> }

protectedRoutes ==
  { <<"/","a","u","t","h","/","l","o","g","i","n">>,
    <<"/","a","u","t","h","/","r","e","g","i","s","t","e","r">> }

apiAuthRoute == <<"/","a","p","i","/","a","u","t","h">>

DEFAULT_SIGNIN_REDIRECT == <<"/","s","e","t","t","i","n","g","s">>

\* the routes of the app directory that have a page
SignInPath == <<"/","a","u","t","h","/","s","i","g","n","i","n">>

SignUpPath == <<"/","a","u","t","h","/","s","i","g","n","u","p">>

SettingsPath == <<"/","s","e","t","t","i","n","g","s">>

\* request paths of the model
Paths ==
  publicRoutes \cup protectedRoutes \cup {SignInPath, SignUpPath, SettingsPath}
  \cup { apiAuthRoute \o <<"/","s","e","s","s","i","o","n">>,
         <<"/","a","p","i","/","u","s","e","r">> }

-----------------------------------------------------------------------------
(* The store: User records, email @unique, id @id *)

\* the value of a field that was never given (undefined / NULL)
Null == "null"

\* prisma.user.findUnique({ where: { email } })
FindByEmail(email) == {u \in users : u.email = email}

\* prisma.user.findUnique({ where: { id } })
FindById(id) == {u \in users : u.id = id}

\* @default(cuid()): an id no record has
NewId == Cardinality(users) + 1

\* a store whose email column is not unique
NoUniqueConstraint(email) == FALSE

\* email String @unique: creating a record with this email is refused (P2002)
UniqueViolation(email) == FindByEmail(email) # {}

\* getUserByEmail with the catch block rethrowing what is not a known
\* Prisma error
getUserByEmailRethrow(email, outcome) ==
  IF outcome = "ok"
  THEN [threw |-> FALSE, user |-> FindByEmail(email)]
  ELSE [threw |-> outcome = "other", user |-> {}]

\* getUserByEmail: try { return findUnique } catch { log; return null }
getUserByEmail(email, outcome) ==
  IF outcome = "ok"
  THEN [threw |-> FALSE, user |-> FindByEmail(email)]
  ELSE IF outcome = "known"
  THEN [threw |-> FALSE, user |-> {}]
  ELSE [threw |-> FALSE, user |-> {}]

\* getUserById: try { return findUnique } catch { log; return null }
getUserById(id, outcome) ==
  IF outcome = "ok"
  THEN [threw |-> FALSE, user |-> FindById(id)]
  ELSE IF outcome = "known"
  THEN [threw |-> FALSE, user |-> {}]
  ELSE [threw |-> FALSE, user |-> {}]

-----------------------------------------------------------------------------
(* The observation of the operation that ran last *)

Pass == [kind |-> "next", location |-> <<>>]

Redirect(to) == [kind |-> "redirect", location |-> to]

NoOp ==
  [op |-> "none", path |-> <<>>, hadSession |-> FALSE,
   email |-> "", password |-> <<>>, name |-> "", id |-> 0,
   lookup |-> "ok", result |-> "none", msg |-> "", user |-> {},
   created |-> {}, dbOps |-> 0, authCalls |-> 0, thrown |-> "none",
   response |-> Pass, rendered |-> "", to |-> <<>>, mwDbOps |-> 0,
   token |-> {}, returned |-> {}, session |-> {}, visited |-> <<>>]

\* a slot with no invocation in it
IdleCall ==
  [pc |-> "idle", email |-> "", password |-> <<>>, name |-> "",
   hash |-> NoPassword, existing |-> {}, result |-> "none", msg |-> "",
   steps |-> <<>>, unused |-> FALSE]

Calls == 1..MaxCalls

\* the two client components with a form
Forms == {"SignInForm", "SignUpForm"}

\* no response of a server action yet
NoResponse == [kind |-> "none", success |-> "", error |-> ""]

\* useState("") twice, useTransition(); inFlight holds the values of the
\* server actions invoked and not resolved, response what the last resolved
\* one gave.  An undefined message is "" as well: FormError and FormSuccess
\* treat both alike.
NewForm ==
  [successMessage |-> "", errorMessage |-> "", isPending |-> FALSE,
   inFlight |-> <<>>, response |-> NoResponse]

\* the values of process.env.NODE_ENV
NodeEnvs == {"production", "development", "test"}

\* the modules that import prisma from "@/db/prismaSingleton"
Importers == {"auth", "getUserByEmail", "getUserById"}

\* a process started under NODE_ENV = env in which no module was evaluated yet
Started(env) ==
  [env |-> env, prismaGlobal |-> {}, constructed |-> 0, evals |-> 0,
   imported |-> [i \in Importers |-> {}]]

Init ==
  /\ users = {}
  /\ cookie = {}
  /\ last = NoOp
  /\ calls = [c \in Calls |-> IdleCall]
  /\ runtime = Started("development")
  /\ signedUp = {}
  /\ forms = [f \in Forms |-> NewForm]

-----------------------------------------------------------------------------
(* src/auth.config.ts: the callbacks *)

\* existingUser.role: the User model has no role column
UserRole(u) == Null

\* callbacks.jwt with customToken a copy of token: the returns of token lose
\* what was written to customToken
jwtOnCopy(token, user, outcome) ==
  LET customToken ==
        IF user # {} /\ (\A u \in user : u.id # 0 /\ u.email # "")
        THEN LET u == CHOOSE x \in user : TRUE
             IN [token EXCEPT !.id = u.id, !.email = u.email]
        ELSE token
  IN
  IF token.sub = 0 THEN token
  ELSE
    LET existingUser == getUserById(token.sub, outcome).user IN
    IF existingUser = {} THEN token
    ELSE [customToken EXCEPT
            !.role = UserRole(CHOOSE x \in existingUser : TRUE)]

\* callbacks.jwt without the assignment of the role
jwtKeepsRole(token, user, outcome) ==
  IF user # {} /\ (\A u \in user : u.id # 0 /\ u.email # "")
  THEN LET u == CHOOSE x \in user : TRUE
       IN [token EXCEPT !.id = u.id, !.email = u.email]
  ELSE token

\* callbacks.jwt({ token, user }); token and customToken are one object
jwt(token, user, outcome) ==
  LET customToken ==
        IF user # {} /\ (\A u \in user : u.id # 0 /\ u.email # "")
        THEN LET u == CHOOSE x \in user : TRUE
             IN [token EXCEPT !.id = u.id, !.email = u.email]
        ELSE token
  IN
  IF token.sub = 0 THEN customToken
  ELSE
    LET existingUser == getUserById(token.sub, outcome).user IN
    IF existingUser = {} THEN customToken
    ELSE [customToken EXCEPT
            !.role = UserRole(CHOOSE x \in existingUser : TRUE)]

\* number of ORM calls one run of callbacks.jwt makes
jwtDbOps(token) == IF token.sub = 0 THEN 0 ELSE 1

\* callbacks.session without the assignment of token.sub
sessionWithoutSub(token) ==
  [id |-> token.id, email |-> token.email, role |-> token.role]

\* callbacks.session({ session, token })
session(token) ==
  [id |-> IF token.sub # 0 THEN token.sub ELSE token.id,
   email |-> token.email,
   role |-> token.role]

\* the token Auth.js hands to callbacks.jwt at sign-in: sub is the user's id
DefaultToken(u) == [sub |-> u.id, id |-> 0, email |-> u.email, role |-> Null]

-----------------------------------------------------------------------------
(* src/auth.config.ts: the credentials authorize function *)

\* authorize returning the user whatever bcrypt.compare says
authorizeNoCompare(credentials, outcome) ==
  IF SignInSchema(credentials)
  THEN getUserByEmail(credentials.email, outcome).user
  ELSE {}

\* authorize with the passwordsMatch test inverted
authorizeInverted(credentials, outcome) ==
  IF SignInSchema(credentials)
  THEN LET user == getUserByEmail(credentials.email, outcome).user IN
       IF user = {} \/ (\E u \in user : u.password = NoPassword) THEN {}
       ELSE IF \E u \in user : ~Compare(credentials.password, u.password)
       THEN user
       ELSE {}
  ELSE {}

\* authorize(credentials): the user record, or null
authorize(credentials, outcome) ==
  IF SignInSchema(credentials)
  THEN LET user == getUserByEmail(credentials.email, outcome).user IN
       IF user = {} \/ (\E u \in user : u.password = NoPassword) THEN {}
       ELSE IF \E u \in user : Compare(credentials.password, u.password)
       THEN user
       ELSE {}
  ELSE {}

Authorize ==
  \E email \in Emails, password \in Passwords, outcome \in OrmOutcomes :
    LET credentials == [email |-> email, password |-> password] IN
    /\ last' = [NoOp EXCEPT !.op = "authorize", !.email = email,
                            !.password = password, !.lookup = outcome,
                            !.dbOps = IF SignInSchema(credentials) THEN 1 ELSE 0,
                            !.result = "return",
                            !.user = authorize(credentials, outcome)]
    /\ UNCHANGED <<users, cookie, calls, runtime, signedUp, forms>>

-----------------------------------------------------------------------------
(* src/db/prismaSingleton.ts: the lookups, called on their own *)

GetUserByEmail ==
  \E email \in Emails, outcome \in OrmOutcomes :
    LET r == getUserByEmail(email, outcome) IN
    /\ last' = [NoOp EXCEPT !.op = "getUserByEmail", !.email = email,
                            !.lookup = outcome, !.dbOps = 1,
                            !.result = IF r.threw THEN "throw" ELSE "return",
                            !.user = r.user]
    /\ UNCHANGED <<users, cookie, calls, runtime, signedUp, forms>>

GetUserById ==
  \E id \in 1..MaxUsers, outcome \in OrmOutcomes :
    LET r == getUserById(id, outcome) IN
    /\ last' = [NoOp EXCEPT !.op = "getUserById", !.id = id,
                            !.lookup = outcome, !.dbOps = 1,
                            !.result = IF r.threw THEN "throw" ELSE "return",
                            !.user = r.user]
    /\ UNCHANGED <<users, cookie, calls, runtime, signedUp, forms>>

-----------------------------------------------------------------------------
(* src/auth.ts: the signUp server action *)

\* the data of prisma.user.create with the submitted password in place of
\* the hash
NewUserPlain(values, hash) ==
  [id |-> NewId, username |-> Null, email |-> values.email,
   password |-> [kind |-> "plain", salt |-> 0, pw |-> values.password]]

\* prisma.user.create({ data: { username, email, password: hash } }); the
\* schema has no username key, so username is undefined
NewUser(values, hash) ==
  [id |-> NewId, username |-> Null, email |-> values.email, password |-> hash]

\* signUp going on to create the record whatever the lookup gave
signUpAlwaysCreate(existingUser) == "create"

\* if (existingUser) return { error }; otherwise the record is created
signUpAfterLookup(existingUser) ==
  IF existingUser # {} THEN "respond" ELSE "create"

\* signUp(values); salt is what bcrypt.genSalt gives, lookup and create are
\* how the two ORM calls end
signUp(values) ==
  LET obs == [NoOp EXCEPT !.op = "signUp", !.email = values.email,
                          !.password = values.password, !.name = values.name]
  IN
  IF ~SignUpSchema(values)
  THEN /\ users' = users
       /\ last' = [obs EXCEPT !.result = "error", !.msg = "Invalid fields!"]
  ELSE
    \E salt \in Salts, lookup \in OrmOutcomes :
      LET hash == Hash(values.password, salt)
          existingUser == getUserByEmail(values.email, lookup).user
          record == NewUser(values, hash)
      IN
      IF signUpAfterLookup(existingUser) = "respond"
      THEN /\ users' = users
           /\ last' = [obs EXCEPT !.result = "error", !.dbOps = 1,
                                  !.lookup = lookup, !.user = existingUser,
                                  !.msg = "Email address is already in use."]
      ELSE
        \E create \in OrmOutcomes :
          IF UniqueViolation(values.email) \/ create # "ok"
          THEN \* prisma.user.create throws: the unique constraint (P2002),
               \* or the failure of the call; signUp has no try/catch
               /\ users' = users
               /\ last' = [obs EXCEPT !.result = "throw", !.dbOps = 2,
                                      !.lookup = lookup,
                                      !.msg = IF UniqueViolation(values.email)
                                              THEN "P2002" ELSE create]
          ELSE /\ Cardinality(users) < MaxUsers
               /\ users' = users \cup {record}
               /\ last' = [obs EXCEPT !.result = "success", !.dbOps = 2,
                                      !.lookup = lookup, !.created = {record},
                                      !.msg = "Sign up successful!"]

SignUp ==
  \E email \in Emails, password \in Passwords, name \in Names :
    /\ signUp([email |-> email, password |-> password, name |-> name])
    /\ signedUp' = signedUp \cup {[password |-> password, user |-> u] :
                                     u \in last'.created}
    /\ UNCHANGED <<cookie, calls, runtime, forms>>

\* The adapter's user creation at a first OAuth sign-in: a record without a
\* password, and a session for it
OAuthSignIn ==
  \E email \in {e \in Emails : IsEmail(e)}, outcome \in OrmOutcomes :
    LET record == [id |-> NewId, username |-> Null, email |-> email,
                   password |-> NoPassword]
    IN
    /\ ~UniqueViolation(email)
    /\ Cardinality(users) < MaxUsers
    /\ users' = users \cup {record}
    /\ cookie' = {jwt(DefaultToken(record), {record}, outcome)}
    /\ last' = [NoOp EXCEPT !.op = "oauth", !.email = email,
                            !.created = {record}, !.result = "success"]
    /\ UNCHANGED <<calls, runtime, signedUp, forms>>

-----------------------------------------------------------------------------
(* src/actions/signIn.ts: the signIn server action *)

\* the types of AuthError of the model: the one the catch block names, and
\* two of the others Auth.js raises
AuthErrorTypes == {"CredentialsSignin", "CallbackRouteError", "AccessDenied"}

\* the catch block with the two messages exchanged
signInCatchSwapped(thrown) ==
  IF thrown = "none"
  THEN [result |-> "success", msg |-> "Sign in successful!"]
  ELSE IF thrown \in AuthErrorTypes
  THEN IF thrown = "CredentialsSignin"
       THEN [result |-> "error",
             msg |-> "An unexpected error occurred. Please try again later."]
       ELSE [result |-> "error",
             msg |-> "Invalid credentials! Please try again."]
  ELSE [result |-> "throw", msg |-> thrown]

\* the catch block without its final throw: what is no AuthError falls through
\* to the return after the try statement
signInCatchSwallowing(thrown) ==
  IF thrown = "none"
  THEN [result |-> "success", msg |-> "Sign in successful!"]
  ELSE IF thrown \in AuthErrorTypes
  THEN IF thrown = "CredentialsSignin"
       THEN [result |-> "error",
             msg |-> "Invalid credentials! Please try again."]
       ELSE [result |-> "error",
             msg |-> "An unexpected error occurred. Please try again later."]
  ELSE [result |-> "success", msg |-> "Sign in successful!"]

\* how signIn ends once authSignIn has ended with `thrown` ("none": it
\* returned): the try/catch and the return after it
signInCatch(thrown) ==
  IF thrown = "none"
  THEN [result |-> "success", msg |-> "Sign in successful!"]
  ELSE IF thrown \in AuthErrorTypes
  THEN IF thrown = "CredentialsSignin"
       THEN [result |-> "error",
             msg |-> "Invalid credentials! Please try again."]
       ELSE [result |-> "error",
             msg |-> "An unexpected error occurred. Please try again later."]
  ELSE [result |-> "throw", msg |-> thrown]

\* authSignIn("credentials", { email, password, redirectTo }) inside the
\* try/catch of signIn.  It runs authorize: null makes it throw the AuthError
\* CredentialsSignin; a user makes it run callbacks.jwt, set the session cookie
\* and redirect, which is a thrown NEXT_REDIRECT that is no AuthError.  fault
\* is an AuthError of another type raised before that ("none": no fault).
authSignIn(values, obs) ==
  \E lookup \in OrmOutcomes,
     fault \in {"none"} \cup (AuthErrorTypes \ {"CredentialsSignin"}) :
    LET user == authorize(values, lookup)
        thrown == IF fault # "none" THEN fault
                  ELSE IF user = {} THEN "CredentialsSignin"
                  ELSE "NEXT_REDIRECT"
        end == signInCatch(thrown)
        seen == [obs EXCEPT !.result = end.result, !.msg = end.msg,
                            !.authCalls = 1, !.lookup = lookup,
                            !.thrown = thrown]
    IN
    IF thrown = "NEXT_REDIRECT"
    THEN \E outcome \in OrmOutcomes :
           /\ cookie' = {jwt(DefaultToken(CHOOSE u \in user : TRUE), user, outcome)}
           /\ last' = [seen EXCEPT !.user = user]
    ELSE /\ cookie' = cookie
         /\ last' = seen

\* signIn without the early return on a failed parse
signInUnvalidated(values) ==
  authSignIn(values, [NoOp EXCEPT !.op = "signIn", !.email = values.email,
                                  !.password = values.password])

\* signIn(values)
signIn(values) ==
  LET obs == [NoOp EXCEPT !.op = "signIn", !.email = values.email,
                          !.password = values.password]
  IN
  IF ~SignInSchema(values)
  THEN /\ cookie' = cookie
       /\ last' = [obs EXCEPT !.result = "error",
                     !.msg = "Invalid fields! Please check your input."]
  ELSE authSignIn(values, obs)

SignIn ==
  \E email \in Emails, password \in Passwords :
    /\ signIn([email |-> email, password |-> password])
    /\ UNCHANGED <<users, calls, runtime, signedUp, forms>>

-----------------------------------------------------------------------------
(* src/middleware.ts and the pages *)

\* a middleware that redirects whatever is not an API-auth route
middlewareRedirecting(pathname) ==
  LET isApiAuthRoute == StartsWith(pathname, apiAuthRoute)
  IN IF isApiAuthRoute THEN Pass ELSE Redirect(DEFAULT_SIGNIN_REDIRECT)

\* the function given to auth(...): it returns undefined on both of its
\* paths, which the wrapper turns into NextResponse.next()
middleware(pathname) ==
  LET isApiAuthRoute == StartsWith(pathname, apiAuthRoute)
      isPublicRoute == pathname \in publicRoutes
      isProtectedRoute == pathname \in protectedRoutes
  IN IF isApiAuthRoute THEN Pass ELSE Pass

\* pages that render their form whatever auth() gave
PageWithoutSessionCheck(pathname, sess) ==
  IF pathname = SettingsPath THEN [content |-> "Settings", to |-> <<>>]
  ELSE IF pathname = SignInPath THEN [content |-> "SignInForm", to |-> <<>>]
  ELSE IF pathname = SignUpPath THEN [content |-> "SignUpForm", to |-> <<>>]
  ELSE [content |-> "NotFound", to |-> <<>>]

\* what the app directory renders for a path, given the session auth() gave
Page(pathname, sess) ==
  IF pathname = SettingsPath THEN [content |-> "Settings", to |-> <<>>]
  ELSE IF pathname = SignInPath
  THEN IF sess # {} THEN [content |-> "Redirect", to |-> DEFAULT_SIGNIN_REDIRECT]
       ELSE [content |-> "SignInForm", to |-> <<>>]
  ELSE IF pathname = SignUpPath
  THEN IF sess # {} THEN [content |-> "Redirect", to |-> DEFAULT_SIGNIN_REDIRECT]
       ELSE [content |-> "SignUpForm", to |-> <<>>]
  ELSE IF pathname = <<"/">> THEN [content |-> "Home", to |-> <<>>]
  ELSE IF StartsWith(pathname, apiAuthRoute)
  THEN [content |-> "AuthHandlers", to |-> <<>>]
  ELSE [content |-> "NotFound", to |-> <<>>]

\* One request: the auth(...) wrapper of the middleware reads the session
\* cookie, runs callbacks.jwt and callbacks.session on its token and writes the
\* token back; then the middleware function; then, unless redirected, the page.
Serve(pathname, visited) ==
    \E outcome \in (IF cookie = {} THEN {"ok"} ELSE OrmOutcomes) :
      LET token == IF cookie = {} THEN {}
                   ELSE {jwt(CHOOSE t \in cookie : TRUE, {}, outcome)}
          sess == {session(t) : t \in token}
          response == middleware(pathname)
      IN
      /\ cookie' = token
      /\ last' = [NoOp EXCEPT !.op = "request", !.path = pathname,
                    !.hadSession = (cookie # {}), !.lookup = outcome,
                    !.response = response,
                    !.visited = Append(visited, pathname),
                    !.mwDbOps = IF cookie = {} THEN 0
                                ELSE jwtDbOps(CHOOSE t \in cookie : TRUE),
                    !.rendered = IF response.kind = "next"
                                 THEN Page(pathname, sess).content ELSE "",
                    !.to = IF response.kind = "next"
                           THEN Page(pathname, sess).to ELSE <<>>]
      /\ UNCHANGED <<users, calls, runtime, signedUp, forms>>

\* a request the browser makes for a path of its own choice
Request == \E pathname \in Paths : Serve(pathname, <<>>)

\* where the answer to the last request sends the browser: the Location of
\* the middleware's redirect, or the route the Redirect component pushes
RedirectTarget ==
  IF last.response.kind = "redirect" THEN last.response.location ELSE last.to

\* the browser follows the redirect it was given
FollowRedirect ==
  /\ last.op = "request"
  /\ RedirectTarget # <<>>
  /\ Len(last.visited) < MaxHops
  /\ Serve(RedirectTarget, last.visited)

\* the Sign Out form of the settings page: authSignOut() clears the cookie
SignOut ==
  /\ cookie' = {}
  /\ last' = [NoOp EXCEPT !.op = "signOut", !.hadSession = (cookie # {})]
  /\ UNCHANGED <<users, calls, runtime, signedUp, forms>>

Next ==
  \/ SignUp
  \/ OAuthSignIn
  \/ Authorize
  \/ GetUserByEmail
  \/ GetUserById
  \/ SignIn
  \/ Request
  \/ SignOut

Spec == Init /\ [][Next]_vars

-----------------------------------------------------------------------------
(* src/auth.ts: signUp invocations running side by side.  Each await of     *)
(* signUp is a point where another invocation may run.                     *)

\* what the callers submit
SignUpInputs ==
  { [email |-> "ann@x.io", password |-> PwGood, name |-> "Ann"],
    [email |-> "bob@x.io", password |-> PwGood, name |-> "Ann"],
    [email |-> "ann@x.io", password |-> PwShort, name |-> "Ann"] }

CallValues(c) ==
  [email |-> calls[c].email, password |-> calls[c].password,
   name |-> calls[c].name]

\* signUp is invoked: SignUpSchema.safeParse(values) and the early return
SignUpCall(c) ==
  \E values \in SignUpInputs :
    /\ calls[c].pc = "idle"
    /\ calls' = [calls EXCEPT ![c] =
         IF ~SignUpSchema(values)
         THEN [IdleCall EXCEPT !.pc = "done", !.email = values.email,
                 !.password = values.password, !.name = values.name,
                 !.result = "error", !.msg = "Invalid fields!",
                 !.steps = <<"validate", "respond">>]
         ELSE [IdleCall EXCEPT !.pc = "hash", !.email = values.email,
                 !.password = values.password, !.name = values.name,
                 !.unused = (FindByEmail(values.email) = {}),
                 !.steps = <<"validate">>]]
    /\ UNCHANGED <<users, cookie, last, runtime, signedUp, forms>>

\* await bcrypt.genSalt(saltRounds); await bcrypt.hash(password, salt)
SignUpHash(c) ==
  \E salt \in Salts :
    /\ calls[c].pc = "hash"
    /\ calls' = [calls EXCEPT ![c].pc = "lookup",
                              ![c].hash = Hash(calls[c].password, salt),
                              ![c].steps = Append(@, "hash")]
    /\ UNCHANGED <<users, cookie, last, runtime, signedUp, forms>>

\* await getUserByEmail(email) and the return when a user was found
SignUpLookup(c) ==
  \E lookup \in OrmOutcomes :
    LET existingUser == getUserByEmail(calls[c].email, lookup).user IN
    /\ calls[c].pc = "lookup"
    /\ calls' = [calls EXCEPT ![c] =
         IF signUpAfterLookup(existingUser) = "respond"
         THEN [@ EXCEPT !.pc = "done", !.existing = existingUser,
                 !.hash = NoPassword, !.result = "error",
                 !.msg = "Email address is already in use.",
                 !.steps = @ \o <<"lookup", "respond">>]
         ELSE [@ EXCEPT !.pc = "create", !.existing = existingUser,
                 !.steps = Append(@, "lookup")]]
    /\ UNCHANGED <<users, cookie, last, runtime, signedUp, forms>>

\* await prisma.user.create(...) and the final return; a create that throws
\* ends the invocation with that exception
SignUpCreate(c) ==
  \E create \in OrmOutcomes :
    /\ calls[c].pc = "create"
    /\ IF UniqueViolation(calls[c].email) \/ create # "ok"
       THEN /\ users' = users
            /\ calls' = [calls EXCEPT ![c] =
                 [@ EXCEPT !.pc = "done", !.hash = NoPassword,
                    !.result = "throw",
                    !.msg = IF UniqueViolation(calls[c].email)
                            THEN "P2002" ELSE create,
                    !.steps = Append(@, "create")]]
       ELSE /\ Cardinality(users) < MaxUsers
            /\ users' = users \cup {NewUser(CallValues(c), calls[c].hash)}
            /\ calls' = [calls EXCEPT ![c] =
                 [@ EXCEPT !.pc = "done", !.hash = NoPassword,
                    !.result = "success", !.msg = "Sign up successful!",
                    !.steps = @ \o <<"create", "respond">>]]
    /\ signedUp' = signedUp \cup {[password |-> calls[c].password, user |-> u] :
                                     u \in users' \ users}
    /\ UNCHANGED <<cookie, last, runtime, forms>>

\* the caller has its answer (or the exception); the slot is free again
SignUpReturn(c) ==
  /\ calls[c].pc = "done"
  /\ calls' = [calls EXCEPT ![c] = IdleCall]
  /\ UNCHANGED <<users, cookie, last, runtime, signedUp, forms>>

NextSignUp ==
  \/ \E c \in Calls : SignUpCall(c)
  \/ \E c \in Calls : SignUpHash(c)
  \/ \E c \in Calls : SignUpLookup(c)
  \/ \E c \in Calls : SignUpCreate(c)
  \/ \E c \in Calls : SignUpReturn(c)
  \/ OAuthSignIn

SpecSignUp == Init /\ [][NextSignUp]_vars
-----------------------------------------------------------------------------
(* Properties *)

LastCredentials == [email |-> last.email, password |-> last.password]

\* C1: a request to a path of protectedRoutes that carries no session is
\* answered by the middleware with a redirect to DEFAULT_SIGNIN_REDIRECT.
C1_ProtectedRedirected ==
  (last.op = "request" /\ last.path \in protectedRoutes /\ ~last.hadSession)
    => last.response = Redirect(DEFAULT_SIGNIN_REDIRECT)

\* C2: a request to a path of publicRoutes, or to a path that starts with
\* apiAuthRoute, is never answered with a redirect, with or without a session.
C2_PublicNeverRedirected ==
  (last.op = "request"
     /\ (last.path \in publicRoutes \/ StartsWith(last.path, apiAuthRoute)))
    => last.response.kind # "redirect"

C2_Witness ==
  /\ last.op = "request"
  /\ last.path \in publicRoutes
  /\ last.hadSession
  /\ last.response = Pass

\* C3: signUp with a password of fewer than 14 characters returns the error
\* "Invalid fields!" and leaves the set of user records as it was.
C3_ShortPasswordRejected ==
  [][(last'.op = "signUp" /\ Len(last'.password) < PasswordMin)
       => /\ last'.result = "error"
          /\ last'.msg = "Invalid fields!"
          /\ last'.dbOps = 0
          /\ users' = users]_vars

C3_Witness ==
  /\ last.op = "signUp"
  /\ Len(last.password) < PasswordMin
  /\ IsEmail(last.email)
  /\ last.name # ""
  /\ last.msg = "Invalid fields!"

\* C4: signUp with schema-valid data whose email is the email of a record
\* already in the store returns "Email address is already in use." and
\* neither creates nor modifies a record.
C4_ExistingEmailRejected ==
  [][(/\ last'.op = "signUp"
      /\ SignUpSchema([email |-> last'.email, password |-> last'.password,
                       name |-> last'.name])
      /\ FindByEmail(last'.email) # {})
       => /\ last'.result = "error"
          /\ last'.msg = "Email address is already in use."
          /\ users' = users]_vars

\* C5 as stated: authorize, given credentials that pass SignInSchema, the
\* email of a stored record and the password that matches its hash, returns
\* that record.
C5_MatchReturnsUser ==
  \A u \in users :
    (/\ last.op = "authorize"
     /\ SignInSchema(LastCredentials)
     /\ u.email = last.email
     /\ Compare(last.password, u.password))
      => last.user = {u}

\* C5 amended: ... and the lookup of getUserByEmail completes, returns that
\* record; when the lookup throws, authorize returns null.
C5_MatchReturnsUserWhenLookupCompletes ==
  \A u \in users :
    (/\ last.op = "authorize"
     /\ SignInSchema(LastCredentials)
     /\ u.email = last.email
     /\ Compare(last.password, u.password))
      => IF last.lookup = "ok" THEN last.user = {u} ELSE last.user = {}

C5_Witness ==
  /\ last.op = "authorize"
  /\ last.lookup = "ok"
  /\ Cardinality(users) >= 2
  /\ \E u \in users :
       /\ u.email = last.email
       /\ Compare(last.password, u.password)
       /\ last.user = {u}

\* C6: authorize returns a record only if the credentials pass SignInSchema,
\* the lookup completed, the record is the stored one with the submitted email,
\* it has a password hash and the submitted password matches the hash; in
\* every other case it returns null.
C6_UserOnlyIfVerified ==
  (last.op = "authorize" /\ last.user # {})
    => /\ SignInSchema(LastCredentials)
       /\ last.lookup = "ok"
       /\ \A u \in last.user :
            /\ u \in users
            /\ u.email = last.email
            /\ u.password # NoPassword
            /\ Compare(last.password, u.password)

C6_Witness ==
  /\ last.op = "authorize"
  /\ SignInSchema(LastCredentials)
  /\ last.lookup = "ok"
  /\ \E u \in users :
       /\ u.email = last.email
       /\ u.password # NoPassword
       /\ ~Compare(last.password, u.password)
  /\ last.user = {}

\* C7: a request to /settings made without a session never gets the settings
\* page's content.
C7_SignedOutNoSettings ==
  (last.op = "request" /\ last.path = SettingsPath /\ ~last.hadSession)
    => last.rendered # "Settings"

\* C8: no database operation is performed while the middleware runs.
C8_MiddlewareNoDatabase ==
  last.op = "request" => last.mwDbOps = 0

\* C9: getUserByEmail and getUserById never throw: they return null when the
\* ORM lookup throws and the lookup's result when it completes.
C9_LookupsNeverThrow ==
  (last.op \in {"getUserByEmail", "getUserById"})
    => /\ last.result = "return"
       /\ last.lookup # "ok" => last.user = {}
       /\ last.lookup = "ok" =>
            last.user = IF last.op = "getUserByEmail"
                        THEN {u \in users : u.email = last.email}
                        ELSE {u \in users : u.id = last.id}

C9_Witness ==
  /\ last.op = "getUserByEmail"
  /\ last.lookup = "other"
  /\ \E u \in users : u.email = last.email
  /\ last.result = "return"
  /\ last.user = {}

\* C10: signIn with values that fail SignInSchema returns "Invalid fields!
\* Please check your input." without calling authSignIn, and the session
\* cookie stays as it was.
C10_InvalidSignInRejected ==
  [][(/\ last'.op = "signIn"
      /\ ~SignInSchema([email |-> last'.email, password |-> last'.password]))
       => /\ last'.result = "error"
          /\ last'.msg = "Invalid fields! Please check your input."
          /\ last'.authCalls = 0
          /\ cookie' = cookie]_vars

C10_Witness ==
  /\ last.op = "signIn"
  /\ ~SignInSchema(LastCredentials)
  /\ last.msg = "Invalid fields! Please check your input."
  /\ users # {}

\* C11: when authSignIn throws an AuthError inside signIn, the action returns
\* the error "Invalid credentials! Please try again." for the type
\* CredentialsSignin and "An unexpected error occurred. Please try again
\* later." for every other type, and never a success message.
C11_AuthErrorMapped ==
  (last.op = "signIn" /\ last.thrown \in AuthErrorTypes)
    => /\ last.result = "error"
       /\ last.msg = IF last.thrown = "CredentialsSignin"
                     THEN "Invalid credentials! Please try again."
                     ELSE "An unexpected error occurred. Please try again later."

C11_Witness ==
  /\ last.op = "signIn"
  /\ last.thrown = "CredentialsSignin"
  /\ last.lookup = "ok"
  /\ \E u \in users : u.email = last.email /\ u.password # NoPassword
  /\ last.msg = "Invalid credentials! Please try again."

C13_EmailsUnique ==
  \A u \in users : \A v \in users : u.email = v.email => u = v

\* two invocations both found the email unused; one created the record and
\* the other's create was refused
C13_Witness ==
  /\ \E c \in Calls : calls[c].result = "success"
  /\ \E c \in Calls :
       /\ calls[c].msg = "P2002"
       /\ calls[c].existing = {}
       /\ Cardinality({u \in users : u.email = calls[c].email}) = 1

\* the steps of signUp in the order the claim gives
StepOrder == <<"validate", "hash", "lookup", "create", "respond">>

StepPos(step) == CHOOSE i \in 1..Len(StepOrder) : StepOrder[i] = step

Did(c, step) == \E i \in 1..Len(calls[c].steps) : calls[c].steps[i] = step

\* C19: in every execution of signUp the steps come in the order validation,
\* hashing, lookup, creation, response, each at most once; hashing and the ORM
\* calls only after the validation succeeded; creation only after the lookup
\* reported no existing user; the response, when there is one, comes last.
C19_StepsInOrder ==
  \A c \in Calls :
    LET st == calls[c].steps IN
    /\ \A i \in 1..Len(st) : \A j \in 1..Len(st) :
         i < j => StepPos(st[i]) < StepPos(st[j])
    /\ st # <<>> => st[1] = "validate"
    /\ (Did(c, "hash") \/ Did(c, "lookup") \/ Did(c, "create"))
         => SignUpSchema(CallValues(c))
    /\ Did(c, "lookup") => Did(c, "hash")
    /\ Did(c, "create") => Did(c, "lookup") /\ calls[c].existing = {}
    /\ Did(c, "respond") => calls[c].result \in {"success", "error"}

\* an invocation stopped at the lookup because the email was taken while
\* another one went through all five steps
C19_Witness ==
  /\ \E c \in Calls :
       /\ calls[c].steps = <<"validate", "hash", "lookup", "respond">>
       /\ calls[c].existing # {}
  /\ \E c \in Calls : calls[c].steps = StepOrder

-----------------------------------------------------------------------------
(* The password rule on its own: a password is entered, the rule is applied *)

\* every character that stands between the brackets of the pattern
ListedSpecial == Special \cup {"]", "|", ":", ";", "\"", "'", "<", ",", ">", "."}

PwPrefixes ==
  { <<"A", "a", "1", "!">>,            \* the four kinds, special of the class
    <<"A", "a", "1", ":">>,            \* the four kinds, special after the class
    <<"A", "a", "1", "!", " ">>,       \* the four kinds and a space
    <<":", "A", "a", "1", "!">>,       \* the four kinds, a late special first
    <<"a", "b", "c", "d">>,            \* lowercase only
    <<"A", "a", "!", "!">>,            \* no digit
    Literal \o <<".">> }               \* the right side of the alternation

PwFillers == {"x", "]"}

PwLengths == {12, 13, 14, 15, 22, 31, 32, 33, 34}

PwInputs ==
  { p \o Rep(f, n - Len(p)) : p \in PwPrefixes, f \in PwFillers, n \in PwLengths }

Entered(p) == [NoOp EXCEPT !.op = "input", !.password = p]

InitPassword ==
  /\ users = {}
  /\ cookie = {}
  /\ calls = [c \in Calls |-> IdleCall]
  /\ runtime = Started("development")
  /\ signedUp = {}
  /\ forms = [f \in Forms |-> NewForm]
  /\ \E p \in PwInputs : last = Entered(p)

\* the password field of SignInSchema / SignUpSchema parses the entered value
ParsePassword ==
  /\ last.op = "input"
  /\ last' = [last EXCEPT !.op = "parsePassword",
                          !.result = IF PasswordRule(last.password)
                                     THEN "accepted" ELSE "rejected"]
  /\ UNCHANGED <<users, cookie, calls, runtime, signedUp, forms>>

\* another value is entered
EnterPassword ==
  /\ last.op = "parsePassword"
  /\ \E p \in PwInputs : last' = Entered(p)
  /\ UNCHANGED <<users, cookie, calls, runtime, signedUp, forms>>

NextPassword == ParsePassword \/ EnterPassword

SpecPassword == InitPassword /\ [][NextPassword]_vars

Accepted == last.op = "parsePassword" /\ last.result = "accepted"

Rejected == last.op = "parsePassword" /\ last.result = "rejected"

FourKinds(s) ==
  /\ HasIn(s, Lower)
  /\ HasIn(s, Upper)
  /\ HasIn(s, Digit)
  /\ HasIn(s, ListedSpecial)

OnlyPermitted(s) ==
  \A i \in 1..Len(s) : s[i] \in Lower \cup Upper \cup Digit \cup ListedSpecial

\* C14: the password rule rejects every password shorter than 14 characters
\* and every password longer than 32: an accepted password has a length in
\* 14..32.
C14_LengthBounded ==
  Accepted => Len(last.password) \in PasswordMin..PasswordMax

\* a password of 33 characters that has the four kinds of character and was
\* rejected
C14_Witness ==
  /\ Rejected
  /\ Len(last.password) = PasswordMax + 1
  /\ PasswordRegex(last.password)

\* C15: every password the rule accepts contains a lowercase letter, an
\* uppercase letter, a digit and a special character.
C15_AcceptedHasFourKinds ==
  Accepted => FourKinds(last.password)

\* C16: every password of 14 to 32 characters made of letters, digits and the
\* listed special characters only, with at least one of each of the four kinds,
\* is accepted wherever its characters stand; a password with a character
\* outside that set is rejected.
C16_AnyCombinationAccepted ==
  last.op = "parsePassword" =>
    /\ ( /\ Len(last.password) \in PasswordMin..PasswordMax
         /\ OnlyPermitted(last.password)
         /\ FourKinds(last.password) ) => last.result = "accepted"
    /\ ~OnlyPermitted(last.password) => last.result = "rejected"

FormOf(pathname) ==
  IF pathname = SignInPath THEN "SignInForm" ELSE "SignUpForm"

\* C18: the sign-in page and the sign-up page never render their form to a
\* request that has a session: with a session they render a Redirect to
\* DEFAULT_SIGNIN_REDIRECT, without one they render the form and no redirect.
C18_FormOnlyWithoutSession ==
  (last.op = "request" /\ last.path \in {SignInPath, SignUpPath}
     /\ last.response.kind = "next")
    => IF last.hadSession
       THEN last.rendered = "Redirect" /\ last.to = DEFAULT_SIGNIN_REDIRECT
       ELSE last.rendered = FormOf(last.path) /\ last.to = <<>>

\* a signed-in request to the sign-up page that was answered with the Redirect
C18_Witness ==
  /\ last.op = "request"
  /\ last.path = SignUpPath
  /\ last.hadSession
  /\ last.rendered = "Redirect"
  /\ last.to = SettingsPath

\* C20: every user record signUp creates holds, as its password, the bcrypt
\* hash of the submitted password under one of the generated salts, and never
\* the submitted password itself.
C20_PasswordStoredHashed ==
  /\ \A u \in users : u.password.kind \in {"bcrypt", "none"}
  /\ (last.op = "signUp" /\ last.created # {})
    => \A u \in last.created :
         /\ u \in users
         /\ u.password.kind = "bcrypt"
         /\ u.password.salt \in Salts
         /\ u.password = Hash(last.password, u.password.salt)
         /\ Compare(last.password, u.password)

\* a signUp that created a record
C20_Witness ==
  /\ last.op = "signUp"
  /\ last.result = "success"
  /\ \E u \in last.created : u \in users /\ Compare(last.password, u.password)

-----------------------------------------------------------------------------
(* src/db/prismaSingleton.ts: the module evaluated again and again, by a hot *)
(* reload or by an import from another module registry. PrismaClient         *)
(* instances are numbered in the order of their construction.                *)

\* the module constructing a client at every evaluation
prismaAlwaysNew(prismaGlobal, fresh) == {fresh}

\* const prisma = globalThis.prismaGlobal ?? prismaClientSingleton()
prisma(prismaGlobal, fresh) ==
  IF prismaGlobal # {} THEN prismaGlobal ELSE {fresh}

\* if (process.env.NODE_ENV !== "production") globalThis.prismaGlobal = prisma
AssignsGlobal(env) == env # "production"

\* one evaluation of the module on behalf of importer i
EvaluateModule(i) ==
  LET fresh == runtime.constructed + 1
      instance == prisma(runtime.prismaGlobal, fresh)
  IN
  /\ runtime.evals < MaxEvals
  /\ runtime' = [runtime EXCEPT
       !.evals = @ + 1,
       !.constructed = IF instance = {fresh} THEN fresh ELSE @,
       !.imported[i] = instance,
       !.prismaGlobal = IF AssignsGlobal(runtime.env) THEN instance ELSE @]
  /\ UNCHANGED <<users, cookie, last, calls, signedUp, forms>>

InitPrisma ==
  /\ users = {}
  /\ cookie = {}
  /\ last = NoOp
  /\ calls = [c \in Calls |-> IdleCall]
  /\ \E env \in NodeEnvs : runtime = Started(env)
  /\ signedUp = {}
  /\ forms = [f \in Forms |-> NewForm]

NextPrisma == \E i \in Importers : EvaluateModule(i)

SpecPrisma == InitPrisma /\ [][NextPrisma]_vars

SingleInstance ==
  /\ runtime.constructed <= 1
  /\ \A i \in Importers : \A j \in Importers :
       (runtime.imported[i] # {} /\ runtime.imported[j] # {})
         => runtime.imported[i] = runtime.imported[j]

-----------------------------------------------------------------------------
(* signUp followed by authorize, with passwords of up to 32 characters *)

\* 32 characters, 86 bytes: the four kinds, then characters of three bytes
PwLong == <<"A", "a", "1", "!">> \o Rep(Euro, 27) \o <<"x">>

\* PwLong with another last character
PwLongOther == <<"A", "a", "1", "!">> \o Rep(Euro, 27) \o <<"y">>

RoundTripPasswords == {PwGood, PwOther, PwLong, PwLongOther}

RoundTripSignUp ==
  \E email \in {e \in Emails : IsEmail(e)}, password \in RoundTripPasswords :
    /\ signUp([email |-> email, password |-> password, name |-> "Ann"])
    /\ signedUp' = signedUp \cup {[password |-> password, user |-> u] :
                                     u \in last'.created}
    /\ UNCHANGED <<cookie, calls, runtime, forms>>

RoundTripAuthorize ==
  \E email \in Emails, password \in RoundTripPasswords, outcome \in OrmOutcomes :
    LET credentials == [email |-> email, password |-> password] IN
    /\ last' = [NoOp EXCEPT !.op = "authorize", !.email = email,
                            !.password = password, !.lookup = outcome,
                            !.dbOps = IF SignInSchema(credentials) THEN 1 ELSE 0,
                            !.result = "return",
                            !.user = authorize(credentials, outcome)]
    /\ UNCHANGED <<users, cookie, calls, runtime, signedUp, forms>>

NextRoundTrip == RoundTripSignUp \/ RoundTripAuthorize

SpecRoundTrip == Init /\ [][NextRoundTrip]_vars

\* C21: once signUp has returned 'Sign up successful!' for an email and a
\* password, authorize with that email and that password returns the record
\* signUp created, and authorize with that email and any other password
\* returns null.
C21_RoundTrip ==
  last.op = "authorize" =>
    \A r \in signedUp :
      r.user.email = last.email =>
        IF last.password = r.password
        THEN last.user = {r.user}
        ELSE last.user = {}


\* two invocations of signUp with valid data and one email that no record
\* had when either of them began, both at their end
Raced(c, d) ==
  /\ c # d
  /\ calls[c].pc = "done" /\ calls[d].pc = "done"
  /\ calls[c].email = calls[d].email
  /\ calls[c].unused /\ calls[d].unused

Succeeded(c) ==
  calls[c].result = "success" /\ calls[c].msg = "Sign up successful!"

InUse(c) ==
  calls[c].result = "error" /\ calls[c].msg = "Email address is already in use."

\* C22: of the concurrent invocations of signUp with valid data and one
\* previously unused email, exactly one returns 'Sign up successful!' and each
\* other returns 'Email address is already in use.'; none ends with an
\* exception.
C22_ExactlyOneSucceeds ==
  \A c \in Calls : \A d \in Calls :
    Raced(c, d) =>
      /\ calls[c].result # "throw" /\ calls[d].result # "throw"
      /\ \/ Succeeded(c) /\ InUse(d)
         \/ Succeeded(d) /\ InUse(c)

-----------------------------------------------------------------------------
(* src/components/auth/SignInForm.tsx: SignInForm and SignUpForm.  A form    *)
(* is pending from startTransition until the server action called in it has *)
(* resolved.                                                                 *)

\* what the user typed when onSubmit is invoked
FormValues ==
  { [email |-> "ann@x.io", password |-> PwGood, name |-> "Ann"],
    [email |-> "ann@x.io", password |-> PwOther, name |-> "Ann"] }

\* inputs and button that stay enabled
NeverDisabled(form) == FALSE

\* disabled={isPending} on every Input and on the Button
Disabled(form) == form.isPending

\* onSubmit(values) of SignUpForm: both messages reset, then startTransition
SignUpFormOnSubmit(form, values) ==
  [form EXCEPT !.successMessage = "", !.errorMessage = "",
               !.isPending = TRUE, !.inFlight = Append(@, values)]

\* onSubmit(values) of SignInForm: startTransition
SignInFormOnSubmit(form, values) ==
  [form EXCEPT !.isPending = TRUE, !.inFlight = Append(@, values)]

onSubmit(f, form, values) ==
  IF f = "SignUpForm" THEN SignUpFormOnSubmit(form, values)
  ELSE SignInFormOnSubmit(form, values)

\* what the promise of the server action gives: the object it returned, or
\* a rejection when it threw
Response(obs) ==
  IF obs.result = "success"
  THEN [kind |-> "object", success |-> obs.msg, error |-> ""]
  ELSE IF obs.result = "error"
  THEN [kind |-> "object", success |-> "", error |-> obs.msg]
  ELSE [kind |-> "rejected", success |-> "", error |-> ""]

\* a .then callback that puts whatever message came into both states
ThenBoth(form, data) ==
  IF data.kind = "object"
  THEN [form EXCEPT !.successMessage = data.success \o data.error,
                    !.errorMessage = data.success \o data.error]
  ELSE form

\* .then((data) => { setSuccessMessage(data.success);
\*                   setErrorMessage(data.error) }); nothing on a rejection
Then(form, data) ==
  IF data.kind = "object"
  THEN [form EXCEPT !.successMessage = data.success,
                    !.errorMessage = data.error]
  ELSE form

\* the message prop FormError is given
FormErrorMessage(f) == IF f = "SignUpForm" THEN forms[f].errorMessage ELSE ""

\* the message prop FormSuccess is given
FormSuccessMessage(f) == IF f = "SignUpForm" THEN forms[f].successMessage ELSE ""

\* FormError: the text shown, "" when it renders null
FormError(message) == message

\* FormSuccess: the text shown, "" when it renders null
FormSuccess(message) == message

\* the form is submitted: onSubmit runs
FormSubmit(f) ==
  \E values \in FormValues :
    /\ ~Disabled(forms[f])
    /\ Len(forms[f].inFlight) < MaxInFlight
    /\ forms' = [forms EXCEPT ![f] = onSubmit(f, forms[f], values)]
    /\ UNCHANGED <<users, cookie, last, calls, runtime, signedUp>>

\* one of the server actions in flight runs and resolves, and the callback of
\* its promise runs
FormResolve(f) ==
  \E i \in 1..Len(forms[f].inFlight) :
    LET values == forms[f].inFlight[i]
        rest == [j \in 1..(Len(forms[f].inFlight) - 1) |->
                   IF j < i THEN forms[f].inFlight[j]
                   ELSE forms[f].inFlight[j + 1]]
    IN
    /\ IF f = "SignUpForm"
       THEN /\ signUp(values)
            /\ signedUp' = signedUp \cup
                 {[password |-> values.password, user |-> u] :
                    u \in last'.created}
            /\ cookie' = cookie
       ELSE /\ signIn([email |-> values.email, password |-> values.password])
            /\ users' = users
            /\ signedUp' = signedUp
    /\ forms' = [forms EXCEPT ![f] =
         [Then(forms[f], Response(last')) EXCEPT
            !.inFlight = rest, !.isPending = (rest # <<>>),
            !.response = Response(last')]]
    /\ UNCHANGED <<calls, runtime>>

NextForm == \E f \in Forms : FormSubmit(f) \/ FormResolve(f)

SpecForm == Init /\ [][NextForm]_vars

\* C26: while a submission of a form is pending its inputs and its button are
\* disabled, and the form has at most one server action in flight.
C26_OneActionInFlight ==
  \A f \in Forms :
    /\ Len(forms[f].inFlight) <= 1
    /\ forms[f].inFlight # <<>> => Disabled(forms[f])

\* a second submission of the sign-in form pending, the first one answered
C26_Witness ==
  /\ forms["SignInForm"].inFlight # <<>>
  /\ forms["SignInForm"].isPending
  /\ forms["SignInForm"].response.kind = "object"
  /\ forms["SignUpForm"].inFlight # <<>>

\* C27: in SignUpForm successMessage and errorMessage are never both
\* non-empty: a submission clears both before the server action is invoked,
\* and the response of the action sets one of them and clears the other.
C27_SignUpMessagesExclusive ==
  LET form == forms["SignUpForm"] IN
  /\ ~(form.successMessage # "" /\ form.errorMessage # "")
  /\ form.inFlight # <<>> => form.successMessage = "" /\ form.errorMessage = ""
  /\ (form.inFlight = <<>> /\ form.response.kind = "object")
       => /\ form.successMessage = form.response.success
          /\ form.errorMessage = form.response.error
          /\ (form.successMessage = "") # (form.errorMessage = "")

\* the sign-up form showing that the email is taken, after a submission that
\* followed a successful one
C27_Witness ==
  /\ forms["SignUpForm"].inFlight = <<>>
  /\ forms["SignUpForm"].successMessage = ""
  /\ forms["SignUpForm"].errorMessage = "Email address is already in use."
  /\ FormError(FormErrorMessage("SignUpForm")) = "Email address is already in use."
  /\ signedUp # {}

\* C28: in SignInForm a submission resets both messages before the server
\* action runs, so that no earlier message is left once a submission has
\* started, and the message the server action returned is the one FormSuccess
\* / FormError are given and show afterwards.
C28_SignInMessagesShown ==
  LET form == forms["SignInForm"] IN
  /\ form.inFlight # <<>> => form.successMessage = "" /\ form.errorMessage = ""
  /\ (form.inFlight = <<>> /\ form.response.kind = "object")
       => /\ FormError(FormErrorMessage("SignInForm")) = form.response.error
          /\ FormSuccess(FormSuccessMessage("SignInForm")) = form.response.success

-----------------------------------------------------------------------------
(* src/auth.config.ts: the callbacks called on their own, on the token of   *)
(* the cookie, over a store with and without a user                         *)

\* the record of a user who signed up
AnnRecord ==
  [id |-> 1, username |-> Null, email |-> "ann@x.io",
   password |-> Hash(PwGood, 1)]

\* a user object without an email
NoEmailUser ==
  [id |-> 2, username |-> Null, email |-> "", password |-> NoPassword]

\* tokens: sub, id and email present or not, with and without a role
TokenInputs ==
  [sub : {0, 1, 2}, id : {0, 1}, email : {"", "ann@x.io"},
   role : {Null, "ADMIN"}]

InitCallbacks ==
  /\ users \in {{}, {AnnRecord}}
  /\ cookie \in {{t} : t \in TokenInputs}
  /\ last = NoOp
  /\ calls = [c \in Calls |-> IdleCall]
  /\ runtime = Started("development")
  /\ signedUp = {}
  /\ forms = [f \in Forms |-> NewForm]

\* Auth.js calls callbacks.jwt on the token of the cookie, with the user at a
\* sign-in and without one otherwise, and writes the returned token back
JwtCallback ==
  \E t \in cookie, outcome \in OrmOutcomes,
     user \in {{}, {NoEmailUser}} \cup {{u} : u \in users} :
    /\ cookie' = {jwt(t, user, outcome)}
    /\ last' = [NoOp EXCEPT !.op = "jwt", !.token = {t}, !.user = user,
                            !.lookup = outcome,
                            !.returned = {jwt(t, user, outcome)}]
    /\ UNCHANGED <<users, calls, runtime, signedUp, forms>>

\* Auth.js calls callbacks.session on the token of the cookie
SessionCallback ==
  \E t \in cookie :
    /\ last' = [NoOp EXCEPT !.op = "session", !.token = {t},
                            !.session = {session(t)}]
    /\ UNCHANGED <<users, cookie, calls, runtime, signedUp, forms>>

NextCallbacks == JwtCallback \/ SessionCallback \/ SignIn

SpecCallbacks == InitCallbacks /\ [][NextCallbacks]_vars

HasIdAndEmail(user) == user # {} /\ \A u \in user : u.id # 0 /\ u.email # ""

\* C23: callbacks.jwt called with a user that has an id and an email returns a
\* token with that id and that email, whether token.sub is missing, names no
\* user or names one; called without a user it returns the token's id and
\* email as they were.
C23_JwtIdentity ==
  last.op = "jwt" =>
    \A t \in last.token : \A r \in last.returned :
      /\ HasIdAndEmail(last.user)
           => \A u \in last.user : r.id = u.id /\ r.email = u.email
      /\ last.user = {} => r.id = t.id /\ r.email = t.email

\* a sign-in of the user with a token whose sub names nobody
C23_Witness ==
  /\ last.op = "jwt"
  /\ last.user = {AnnRecord}
  /\ \E t \in last.token : t.sub = 2 /\ t.id = 0 /\ t.email = ""
  /\ \E r \in last.returned : r.id = 1 /\ r.email = "ann@x.io"

Found(t) == t.sub # 0 /\ last.lookup = "ok" /\ FindById(t.sub) # {}

C25_SessionFromToken ==
  /\ last.op = "session" =>
       \A t \in last.token : \A ses \in last.session :
         /\ t.sub # 0 => ses.id = t.sub
         /\ ses.email = t.email
         /\ t.role # Null => ses.role = t.role
  /\ (last.op = "signIn" /\ last.thrown = "NEXT_REDIRECT") =>
       \A u \in last.user : \A t \in cookie : session(t).id = u.id

\* a token whose id field differs from its sub
C25_Witness ==
  /\ last.op = "session"
  /\ \E t \in last.token : t.sub = 2 /\ t.id = 1 /\ t.role = "ADMIN"
  /\ \E ses \in last.session : ses.id = 2 /\ ses.role = "ADMIN"

-----------------------------------------------------------------------------
(* The browser following the redirects of the middleware and of the pages   *)

NextNavigate == Request \/ FollowRedirect \/ OAuthSignIn \/ SignOut

SpecNavigate == Init /\ [][NextNavigate]_vars

\* C29: from every start path, with and without a session, the chain of
\* redirects of the middleware and of the sign-in / sign-up pages visits no
\* path twice and ends at a rendered page; a request for
\* DEFAULT_SIGNIN_REDIRECT is not redirected again.
C29_RedirectChainEnds ==
  last.op = "request" =>
    /\ \A i \in 1..Len(last.visited) : \A j \in 1..Len(last.visited) :
         i < j => last.visited[i] # last.visited[j]
    /\ Len(last.visited) = MaxHops => RedirectTarget = <<>>
    /\ RedirectTarget = <<>> => last.rendered \notin {"", "Redirect"}
    /\ last.path = DEFAULT_SIGNIN_REDIRECT => RedirectTarget = <<>>

\* a signed-in request for the sign-in page, followed to the settings page
C29_Witness ==
  /\ last.op = "request"
  /\ last.hadSession
  /\ last.visited = <<SignInPath, SettingsPath>>
  /\ last.rendered = "Settings"
  /\ RedirectTarget = <<>>

====
